---- MODULE Spec2Model ----
(***************************************************************************)
(* A model of riptimize.py: the reconciliation of the running on-demand   *)
(* instances with the reserved instances (RIs) of the RI holding account, *)
(* the greedy redistribution plan and its execution as RI modifications.  *)
(* Python dicts are functions whose DOMAIN is the dict's key set; a key   *)
(* (instance_type, availability_zone) is the tuple <<itype, az>>.  The    *)
(* module is Python 2 (example_main.py uses print statements): items()    *)
(* and values() return lists, in an order the dict chooses.               *)
(*                                                                         *)
(* Spec is a run of riptimize; SpecPlan calls the planning functions      *)
(* (aggregate_inventory, compute_ri_mistmatch to greedy_distribution) on  *)
(* their own, SpecExec calls execute_plan on its own, and                 *)
(* SpecRedistribute plans from the RI groups that it then executes the    *)
(* plan on.  Of the calls to AWS, put_metric_data may raise and a zone    *)
(* may be unavailable; the others are taken to succeed, and the RI groups *)
(* of the account to stay as they are during a run.                       *)
(***************************************************************************)
EXTENDS Integers, Sequences, FiniteSets, TLC

\* ------------------------------------------------------------- bounds
\* in a run of riptimize: the running instances of all accounts, and the instances
\* reserved by all RI groups, are each at most
MaxRunDemand == 1
MaxRunReserved == 1
\* when the planning functions are called on their own: the instances of the demand
\* inventory, and of the reserved inventory, are each at most
MaxDemand == 2
MaxReserved == 2
\* when execute_plan is called on its own: the instances the plan moves are at most
\* MaxPlanned (and those the RI groups reserve at most MaxReserved)
MaxPlanned == 2
\* when aggregate_inventory is called on its own: the running instances of all accounts
MaxAggregated == 3
\* the clock is read at most MaxClock milliseconds after a whole second
MaxClock == 5

Types == {"t1", "t2"}
Zones == {"z1", "z2", "z3"}
AccountIds == {"a1", "a2"}
\* the zones of the plans and RI groups execute_plan is called with on its own
PlanZones == {"z1", "z2"}
\* the states EC2 reports for a zone
ZoneStates == {"available", "impaired", "unavailable"}
Keys == Types \X Zones

\* ------------------------------------------------------------- dicts
EmptyDict == [k \in {} |-> 0]

DictSet(d, k, v) == [x \in (DOMAIN d) \cup {k} |-> IF x = k THEN v ELSE d[x]]

DictDel(d, k) == [x \in (DOMAIN d) \ {k} |-> d[x]]

DictGet(d, k, default) == IF k \in DOMAIN d THEN d[k] ELSE default

Abs(n) == IF n < 0 THEN -n ELSE n

Min(a, b) == IF a <= b THEN a ELSE b

RECURSIVE SumOver(_, _)
SumOver(f, S) ==
    IF S = {} THEN 0
    ELSE LET x == CHOOSE y \in S : TRUE IN f[x] + SumOver(f, S \ {x})

\* every enumeration order of a finite set, as sequences without repetition
Orders(S) ==
    {s \in [1..Cardinality(S) -> S] : \A i, j \in 1..Cardinality(S) : i # j => s[i] # s[j]}

\* inventories: dicts from keys to counts >= 1 with at most n instances in all
Inventories(n) ==
    {inv \in UNION {[D -> 1..n] : D \in SUBSET Keys} : SumOver(inv, DOMAIN inv) <= n}

\* ------------------------------------------------------------- aggregate_inventory
\* the overwriting slip: i_inventory[itype_and_az] = count in both branches
AddCountOverwrite(i_inventory, itype_and_az, count) ==
    DictSet(i_inventory, itype_and_az, count)

\* lines 175-178: the body of the inner loop
AddCount(i_inventory, itype_and_az, count) ==
    IF itype_and_az \in DOMAIN i_inventory
    THEN DictSet(i_inventory, itype_and_az, i_inventory[itype_and_az] + count)
    ELSE DictSet(i_inventory, itype_and_az, count)

\* lines 174-178: the inner loop over one account's items
RECURSIVE MergeAccount(_, _, _)
MergeAccount(i_inventory, account_inventory, todo) ==
    IF todo = {} THEN i_inventory
    ELSE LET k == CHOOSE x \in todo : TRUE
         IN MergeAccount(AddCount(i_inventory, k, account_inventory[k]),
                         account_inventory, todo \ {k})

\* lines 171-179: values is inventory_by_account.values() in its enumeration order
RECURSIVE AggregateFrom(_, _)
AggregateFrom(i_inventory, values) ==
    IF values = <<>> THEN i_inventory
    ELSE AggregateFrom(MergeAccount(i_inventory, Head(values), DOMAIN Head(values)),
                       Tail(values))

aggregate_inventory(values) == AggregateFrom(EmptyDict, values)

\* ------------------------------------------------------------- compute_ri_mistmatch
\* the slip the spec warns of: only the keys of ri_inventory are visited
SubtractDemandReservedOnly(mismatch, i_inventory, todo) ==
    [k \in DOMAIN mismatch |-> mismatch[k] - DictGet(i_inventory, k, 0)]

\* lines 217-220: the loop over i_inventory.items()
RECURSIVE SubtractDemand(_, _, _)
SubtractDemand(mismatch, i_inventory, todo) ==
    IF todo = {} THEN mismatch
    ELSE LET k == CHOOSE x \in todo : TRUE
             m0 == IF k \notin DOMAIN mismatch THEN DictSet(mismatch, k, 0) ELSE mismatch
         IN SubtractDemand(DictSet(m0, k, m0[k] - i_inventory[k]), i_inventory, todo \ {k})

\* line 222: the comprehension that keeps the non-zero entries
NonZero(d) == [k \in {x \in DOMAIN d : d[x] # 0} |-> d[k]]

\* lines 214-222
compute_ri_mistmatch(ri_inventory, i_inventory) ==
    NonZero(SubtractDemand(ri_inventory, i_inventory, DOMAIN i_inventory))

\* ------------------------------------------------------------- eliminate_unsupported_zones
\* the slip: the eliminated entries keep the sign of the mismatch
EliminatedEntriesSameSign(mismatch, supported_ri_zones) ==
    [k \in {x \in DOMAIN mismatch : x[2] \notin supported_ri_zones} |-> mismatch[k]]

\* the slip: the zone test of the clean mismatch is dropped
CleanEntriesUnfiltered(mismatch, supported_ri_zones) == mismatch

\* line 271
CleanEntries(mismatch, supported_ri_zones) ==
    [k \in {x \in DOMAIN mismatch : x[2] \in supported_ri_zones} |-> mismatch[k]]

\* line 272
EliminatedEntries(mismatch, supported_ri_zones) ==
    [k \in {x \in DOMAIN mismatch : x[2] \notin supported_ri_zones} |-> -mismatch[k]]

\* lines 269-273
eliminate_unsupported_zones(mismatch, supported_ri_zones) ==
    <<CleanEntries(mismatch, supported_ri_zones), EliminatedEntries(mismatch, supported_ri_zones)>>

\* ------------------------------------------------------------- compute_ri_surplus
\* lines 225-233
compute_ri_surplus(clean_mismatch) ==
    [itype \in {k[1] : k \in DOMAIN clean_mismatch} |->
        SumOver(clean_mismatch, {k \in DOMAIN clean_mismatch : k[1] = itype})]

\* ------------------------------------------------------------- get_ri_inventory
\* lines 203-208: the loop over the active RI groups, in listed order
RECURSIVE RiInventoryFrom(_, _)
RiInventoryFrom(ri_inventory, groups) ==
    IF groups = <<>> THEN ri_inventory
    ELSE LET g == Head(groups)
             k == <<g.instance_type, g.availability_zone>>
             upd == IF k \in DOMAIN ri_inventory
                    THEN DictSet(ri_inventory, k, ri_inventory[k] + g.instance_count)
                    ELSE DictSet(ri_inventory, k, g.instance_count)
         IN RiInventoryFrom(upd, Tail(groups))

\* ------------------------------------------------------------- greedy_distribution
\* lines 240-244: the entries with diff < 0
Recepients(mismatch) == [k \in {x \in DOMAIN mismatch : mismatch[x] < 0} |-> mismatch[k]]

\* lines 240-244: the entries with diff > 0
Donors(mismatch) == [k \in {x \in DOMAIN mismatch : mismatch[x] > 0} |-> mismatch[k]]

\* the slip: the donor's available count is not taken into account
MoveCountUncapped(deficit, count) == Abs(deficit)

\* line 253
MoveCount(deficit, count) == Min(Abs(deficit), count)

\* the slip: any donor is taken, whatever its instance type
SameTypeAlways(donor_itype, recepient_itype) == TRUE

\* line 251
SameType(donor_itype, recepient_itype) == donor_itype = recepient_itype

\* lines 249-264: the loop over items, the list donors.items() made when the loop
\* started (Python 2: a list of (key, count) pairs), for one recipient.
\* The result is <<donors, plan>>.
RECURSIVE DonorLoop(_, _, _, _, _)
DonorLoop(items, recepient, deficit, donors, plan) ==
    IF items = <<>> THEN <<donors, plan>>
    ELSE LET donor_itype_and_az == Head(items)[1]
             count == Head(items)[2]
             donor_itype == donor_itype_and_az[1]
             donor_az == donor_itype_and_az[2]
         IN IF SameType(donor_itype, recepient[1])
            THEN LET move_count == MoveCount(deficit, count)
                     plan2 == Append(plan, <<donor_itype, donor_az, recepient[2], move_count>>)
                     donors2 == IF count = move_count
                                THEN DictDel(donors, donor_itype_and_az)
                                ELSE DictSet(donors, donor_itype_and_az,
                                             donors[donor_itype_and_az] - move_count)
                     deficit2 == deficit + move_count
                 IN IF deficit2 >= 0 THEN <<donors2, plan2>>
                    ELSE DonorLoop(Tail(items), recepient, deficit2, donors2, plan2)
            ELSE DonorLoop(Tail(items), recepient, deficit, donors, plan)

\* ------------------------------------------------------------- execute_plan
\* the slip: a group an earlier action emptied is still drawn from
RECURSIVE DonorGroupsEmptied(_, _, _, _)
DonorGroupsEmptied(ri_groups, itype, source_az, i) ==
    IF i > Len(ri_groups) THEN <<>>
    ELSE LET g == ri_groups[i]
             rest == DonorGroupsEmptied(ri_groups, itype, source_az, i + 1)
         IN IF g.instance_type = itype /\ g.availability_zone = source_az
            THEN <<i>> \o rest ELSE rest

\* line 287: the indices, in listed order, of the groups an action can draw from
RECURSIVE DonorGroups(_, _, _, _)
DonorGroups(ri_groups, itype, source_az, i) ==
    IF i > Len(ri_groups) THEN <<>>
    ELSE LET g == ri_groups[i]
             rest == DonorGroups(ri_groups, itype, source_az, i + 1)
         IN IF g.instance_type = itype /\ g.availability_zone = source_az
               /\ g.instance_count > 0
            THEN <<i>> \o rest ELSE rest

\* line 297
TakeFromGroup(g, move_count) == [g EXCEPT !.instance_count = @ - move_count]

\* lines 292-295: a move descriptor is <<index of the group object, dest_az, move_count>>
AddDescriptor(modifications, id, descriptor) ==
    IF id \notin DOMAIN modifications
    THEN DictSet(modifications, id, <<descriptor>>)
    ELSE DictSet(modifications, id, Append(modifications[id], descriptor))

\* lines 288-298: the while loop of one action. The result is <<ri_groups, modifications>>.
RECURSIVE ConsumeGroups(_, _, _, _, _, _)
ConsumeGroups(donor_groups, index, count, dest_az, ri_groups, modifications) ==
    IF index <= Len(donor_groups) /\ count > 0
    THEN LET gi == donor_groups[index]
             donor_group == ri_groups[gi]
             move_count == Min(count, donor_group.instance_count)
         IN ConsumeGroups(donor_groups, index + 1, count - move_count, dest_az,
                [ri_groups EXCEPT ![gi] = TakeFromGroup(donor_group, move_count)],
                AddDescriptor(modifications, donor_group.id, <<gi, dest_az, move_count>>))
    ELSE <<ri_groups, modifications>>

\* ------------------------------------------------------------- move_reserved_instances
Configuration(az, n) == [availability_zone |-> az, instance_count |-> n, platform |-> "EC2-VPC"]

\* the slip: the remainder configuration is never appended
RemainderDropped(donor_group) == <<>>

\* lines 317-318: the configuration that keeps the group's leftover in its own zone
Remainder(donor_group) ==
    IF donor_group.instance_count > 0
    THEN <<Configuration(donor_group.availability_zone, donor_group.instance_count)>>
    ELSE <<>>

\* lines 312-318: donor_group is the group object of the last descriptor, read when
\* the modification is submitted
TargetConfigurations(move_descriptor_list, ri_groups) ==
    [i \in 1..Len(move_descriptor_list) |->
        Configuration(move_descriptor_list[i][2], move_descriptor_list[i][3])]
    \o Remainder(ri_groups[move_descriptor_list[Len(move_descriptor_list)][1]])

DryRunId == "rimod-<DRY-RUN>"

\* line 322: what time.time() can return, in milliseconds after a whole second; the
\* wall clock may repeat a reading or step back
ClockReadings == 0..MaxClock

\* line 322: Python 2's str of a float prints 12 significant digits, which for the
\* seconds since the epoch ends at the hundredths, rounded; the token is the
\* hundredths printed
str(reading) == (reading + 5) \div 10

\* the slip: the modification is requested whatever optimize says
SubmitsAlways(optimize) == TRUE

\* line 321
Submits(optimize) == optimize

\* the slip: the in-flight modifications are not looked at
PerformOptimizationUnguarded(optimize, modifications_inflight) == optimize

\* line 128
PerformOptimization(optimize, modifications_inflight) == optimize /\ ~modifications_inflight

\* ------------------------------------------------------------- get_ri_inventory
\* the slip: the state of a zone is not looked at
RaisesNever(state) == FALSE

\* line 190
Raises(state) == state # "available"

\* line 118
RiImbalance(surplus) == [itype \in {t \in DOMAIN surplus : surplus[t] # 0} |-> surplus[itype]]

\* ------------------------------------------------------------- state
VARIABLES
    pc,                       \* the statement the run is at
    optimize,                 \* riptimize's argument, drawn where the run reads it
    publish_metrics,          \* riptimize's argument, drawn where the run reads it
    env_groups,               \* the active RI groups of the RI holding account
    zones,                    \* dict zone name -> state: what get_all_zones listed
    i_inventory_by_account,   \* dict account_id -> inventory
    i_inventory,
    ri_inventory,
    supported_ri_zones,
    processing_modifications,
    mismatch,
    clean_mismatch,
    eliminated_i_inventory,
    ri_surplus,
    recepients,               \* greedy_distribution's locals
    donors,
    r_todo,                   \* the recipients the loop of line 248 has yet to visit
    plan,
    perform,                  \* execute_plan's parameter optimize
    ri_groups,                \* execute_plan's group objects, instance_count mutable
    modifications,            \* dict group id -> list of move descriptors
    ai,                       \* position in plan of the loop of line 284
    m_todo,                   \* the modifications the loop of line 302 has yet to visit
    modification_ids,
    batches,                  \* history: the target configurations built, per group
    calls,                    \* history: the modify_reserved_instances requests made
    p_todo,                   \* the metrics the loop of line 331 has yet to publish
    metrics,                  \* history: the metric data put to CloudWatch
    result                    \* riptimize's returned tuple, <<>> until it returns

argVars == <<optimize, publish_metrics>>
invVars == <<env_groups, zones, i_inventory_by_account, i_inventory, ri_inventory,
             supported_ri_zones, processing_modifications>>
misVars == <<mismatch, clean_mismatch, eliminated_i_inventory, ri_surplus>>
greedyVars == <<recepients, donors, r_todo, plan>>
execVars == <<perform, ri_groups, modifications, ai, m_todo, modification_ids,
              batches, calls>>
pubVars == <<p_todo, metrics, result>>

vars == <<pc, argVars, invVars, misVars, greedyVars, execVars, pubVars>>

\* the per-account inventories get_i_inventory_by_account can return
AccountInventories(n) ==
    {ia \in UNION {[A -> Inventories(n)] : A \in SUBSET AccountIds} :
        SumOver([a \in DOMAIN ia |-> SumOver(ia[a], DOMAIN ia[a])], DOMAIN ia) <= n}

\* the zones get_all_zones can list, each with its state
ZoneListings == UNION {[Z -> ZoneStates] : Z \in SUBSET Zones}

\* the lists of active RI groups get_all_reserved_instances can return; the id of a
\* group is its position in the list
RECURSIVE Reserved(_)
Reserved(groups) ==
    IF groups = <<>> THEN 0 ELSE Head(groups).instance_count + Reserved(Tail(groups))

GroupLists(azs, max) ==
    {groups \in UNION {[1..n -> [instance_type : Types, availability_zone : azs,
                                 instance_count : 1..max]] : n \in 0..max} :
        Reserved(groups) <= max}

WithIds(groups) ==
    [i \in 1..Len(groups) |->
        [id |-> i, instance_type |-> groups[i].instance_type,
         availability_zone |-> groups[i].availability_zone,
         instance_count |-> groups[i].instance_count]]

\* the plans execute_plan can be given
RECURSIVE Planned(_)
Planned(actions) ==
    IF actions = <<>> THEN 0 ELSE Head(actions)[4] + Planned(Tail(actions))

PlanActions == Types \X PlanZones \X PlanZones \X (1..MaxPlanned)
Plans ==
    {actions \in UNION {[1..n -> PlanActions] : n \in 0..MaxPlanned} :
        Planned(actions) <= MaxPlanned}

\* an argument is "unread" until the one line that reads it, then "True" or "False"
BlankArgs == optimize = "unread" /\ publish_metrics = "unread"

BlankInventories ==
    /\ i_inventory_by_account = EmptyDict
    /\ i_inventory = EmptyDict
    /\ ri_inventory = EmptyDict

BlankAccount ==
    /\ env_groups = <<>>
    /\ zones = EmptyDict
    /\ supported_ri_zones = {}
    /\ processing_modifications = <<>>

BlankMismatch ==
    /\ mismatch = EmptyDict
    /\ clean_mismatch = EmptyDict
    /\ eliminated_i_inventory = EmptyDict
    /\ ri_surplus = EmptyDict

BlankGreedy ==
    /\ recepients = EmptyDict
    /\ donors = EmptyDict
    /\ r_todo = {}

BlankExec ==
    /\ ri_groups = <<>>
    /\ modifications = EmptyDict
    /\ ai = 1
    /\ m_todo = {}
    /\ modification_ids = <<>>
    /\ batches = <<>>
    /\ calls = <<>>

BlankPublish ==
    /\ p_todo = {}
    /\ metrics = {}
    /\ result = <<>>

\* ------------------------------------------------------------- riptimize, steps 1 to 6
\* line 102: the instance inventories of any accounts
GetInstanceInventory ==
    /\ pc = "riptimize"
    /\ i_inventory_by_account' \in AccountInventories(MaxRunDemand)
    /\ pc' = "aggregate_inventory"
    /\ UNCHANGED <<argVars, env_groups, zones, i_inventory, ri_inventory,
                   supported_ri_zones, processing_modifications, misVars, greedyVars,
                   execVars, pubVars>>

\* line 103: inventory_by_account.values() comes in any order
Aggregate ==
    /\ pc = "aggregate_inventory"
    /\ \E order \in Orders(DOMAIN i_inventory_by_account) :
          i_inventory' = aggregate_inventory(
              [i \in 1..Len(order) |-> i_inventory_by_account[order[i]]])
    /\ pc' = "get_ri_inventory"
    /\ UNCHANGED <<argVars, env_groups, zones, i_inventory_by_account, ri_inventory,
                   supported_ri_zones, processing_modifications, misVars, greedyVars,
                   execVars, pubVars>>

\* lines 106-107 and 182-211, no listed zone raising: the zones, the modifications
\* in processing and the active RI groups are what the account holds
GetRiInventory ==
    /\ pc = "get_ri_inventory"
    /\ \E listed \in ZoneListings :
          /\ \A z \in DOMAIN listed : ~Raises(listed[z])
          /\ zones' = listed
          /\ supported_ri_zones' = DOMAIN listed
    /\ processing_modifications' \in {<<>>, <<"rimod-processing">>}
    /\ \E groups \in GroupLists(Zones, MaxRunReserved) :
          /\ env_groups' = WithIds(groups)
          /\ ri_inventory' = RiInventoryFrom(EmptyDict, WithIds(groups))
    /\ pc' = "compute_ri_mistmatch"
    /\ UNCHANGED <<argVars, i_inventory_by_account, i_inventory, misVars, greedyVars,
                   execVars, pubVars>>

\* lines 188-191: a listed zone raises (the operands of line 191 raise a TypeError
\* before the RuntimeError is made); nothing in riptimize catches it (line 106)
ZoneNotAvailable ==
    /\ pc = "get_ri_inventory"
    /\ \E listed \in ZoneListings :
          /\ \E z \in DOMAIN listed : Raises(listed[z])
          /\ zones' = listed
    /\ pc' = "raised in get_ri_inventory"
    /\ UNCHANGED <<argVars, env_groups, i_inventory_by_account, i_inventory, ri_inventory,
                   supported_ri_zones, processing_modifications, misVars, greedyVars,
                   execVars, pubVars>>

\* line 110
Mismatch ==
    /\ pc = "compute_ri_mistmatch"
    /\ mismatch' = compute_ri_mistmatch(ri_inventory, i_inventory)
    /\ pc' = "eliminate_unsupported_zones"
    /\ UNCHANGED <<argVars, invVars, clean_mismatch, eliminated_i_inventory, ri_surplus,
                   greedyVars, execVars, pubVars>>

\* line 113
Eliminate ==
    /\ pc = "eliminate_unsupported_zones"
    /\ clean_mismatch' = eliminate_unsupported_zones(mismatch, supported_ri_zones)[1]
    /\ eliminated_i_inventory' = eliminate_unsupported_zones(mismatch, supported_ri_zones)[2]
    /\ pc' = "compute_ri_surplus"
    /\ UNCHANGED <<argVars, invVars, mismatch, ri_surplus, greedyVars, execVars, pubVars>>

\* line 116
Surplus ==
    /\ pc = "compute_ri_surplus"
    /\ ri_surplus' = compute_ri_surplus(clean_mismatch)
    /\ pc' = "greedy_distribution"
    /\ UNCHANGED <<argVars, invVars, mismatch, clean_mismatch, eliminated_i_inventory,
                   greedyVars, execVars, pubVars>>

\* ------------------------------------------------------------- riptimize, step 7
\* lines 126 and 238-246
GreedySplit ==
    /\ pc = "greedy_distribution"
    /\ recepients' = Recepients(clean_mismatch)
    /\ donors' = Donors(clean_mismatch)
    /\ r_todo' = DOMAIN Recepients(clean_mismatch)
    /\ plan' = <<>>
    /\ pc' = "greedy_loop"
    /\ UNCHANGED <<argVars, invVars, misVars, execVars, pubVars>>

\* lines 248-264: one recipient, in any enumeration order of recepients and of donors
GreedyRecipient ==
    /\ pc = "greedy_loop"
    /\ \E recepient \in r_todo, order \in Orders(DOMAIN donors) :
          LET items == [i \in 1..Len(order) |-> <<order[i], donors[order[i]]>>]
              done == DonorLoop(items, recepient, recepients[recepient], donors, plan)
          IN /\ donors' = done[1]
             /\ plan' = done[2]
             /\ r_todo' = r_todo \ {recepient}
    /\ UNCHANGED <<pc, argVars, invVars, misVars, recepients, execVars, pubVars>>

\* line 266
GreedyReturn ==
    /\ pc = "greedy_loop"
    /\ r_todo = {}
    /\ pc' = "plan made"
    /\ UNCHANGED <<argVars, invVars, misVars, greedyVars, execVars, pubVars>>

\* ------------------------------------------------------------- riptimize, step 8
\* lines 127-130, the plan has actions
CallExecutePlan ==
    /\ pc = "plan made"
    /\ Len(plan) > 0
    /\ \E o \in BOOLEAN :
          /\ optimize' = IF o THEN "True" ELSE "False"
          /\ perform' = PerformOptimization(o, Len(processing_modifications) # 0)
    /\ pc' = "execute_plan"
    /\ UNCHANGED <<publish_metrics, invVars, misVars, greedyVars, ri_groups, modifications, ai,
                   m_todo, modification_ids, batches, calls, pubVars>>

\* line 127, the plan is empty: modification_ids stays [] (line 124)
SkipExecutePlan ==
    /\ pc = "plan made"
    /\ Len(plan) = 0
    /\ pc' = "publish"
    /\ UNCHANGED <<argVars, invVars, misVars, greedyVars, execVars, pubVars>>

\* lines 277-282: the group objects are fetched anew from the account
ExecFetch ==
    /\ pc = "execute_plan"
    /\ ri_groups' = env_groups
    /\ modifications' = EmptyDict
    /\ ai' = 1
    /\ pc' = "plan loop"
    /\ UNCHANGED <<argVars, invVars, misVars, greedyVars, perform, m_todo,
                   modification_ids, batches, calls, pubVars>>

\* lines 284-298: one action of the plan
ExecAction ==
    /\ pc = "plan loop"
    /\ ai <= Len(plan)
    /\ LET action == plan[ai]
           donor_groups == DonorGroups(ri_groups, action[1], action[2], 1)
           done == ConsumeGroups(donor_groups, 1, action[4], action[3],
                                 ri_groups, modifications)
       IN /\ ri_groups' = done[1]
          /\ modifications' = done[2]
    /\ ai' = ai + 1
    /\ UNCHANGED <<pc, argVars, invVars, misVars, greedyVars, perform, m_todo,
                   modification_ids, batches, calls, pubVars>>

\* line 300: the plan is exhausted
ExecCollect ==
    /\ pc = "plan loop"
    /\ ai > Len(plan)
    /\ modification_ids' = <<>>
    /\ m_todo' = DOMAIN modifications
    /\ pc' = "modifications loop"
    /\ UNCHANGED <<argVars, invVars, misVars, greedyVars, perform, ri_groups,
                   modifications, ai, batches, calls, pubVars>>

\* lines 302-303 and 309-324: one modification, modifications.values() coming in any
\* order. The request, when made, carries the clock's reading as its client token
\* and returns the id of a new modification.
ExecSubmit ==
    /\ pc = "modifications loop"
    /\ \E id \in m_todo :
          LET move_descriptor_list == modifications[id]
              donor_group_id == ri_groups[move_descriptor_list[1][1]].id
              request == [reserved_instance_ids |-> <<donor_group_id>>,
                          target_configurations |->
                              TargetConfigurations(move_descriptor_list, ri_groups)]
          IN /\ batches' = Append(batches, request)
             /\ IF Submits(perform)
                THEN /\ \E reading \in ClockReadings :
                          calls' = Append(calls,
                              [client_token |-> str(reading),
                               reserved_instance_ids |-> request.reserved_instance_ids,
                               target_configurations |-> request.target_configurations])
                     /\ modification_ids' =
                            Append(modification_ids, [id |-> "rimod", request |-> Len(calls) + 1])
                ELSE /\ calls' = calls
                     /\ modification_ids' =
                            Append(modification_ids, [id |-> DryRunId, request |-> 0])
             /\ m_todo' = m_todo \ {id}
    /\ UNCHANGED <<pc, argVars, invVars, misVars, greedyVars, perform, ri_groups,
                   modifications, ai, pubVars>>

\* lines 305-306
ExecReturn ==
    /\ pc = "modifications loop"
    /\ m_todo = {}
    /\ pc' = "publish"
    /\ UNCHANGED <<argVars, invVars, misVars, greedyVars, execVars, pubVars>>

\* ------------------------------------------------------------- riptimize, steps 9 and 10
\* lines 133-135 and 328-329
PublishStart ==
    /\ pc = "publish"
    /\ \E p \in BOOLEAN :
          /\ publish_metrics' = IF p THEN "True" ELSE "False"
          /\ IF p
             THEN p_todo' = DOMAIN ri_surplus /\ pc' = "metrics loop"
             ELSE p_todo' = p_todo /\ pc' = "return"
    /\ UNCHANGED <<optimize, invVars, misVars, greedyVars, execVars, metrics, result>>

\* lines 331-332: one put_metric_data that succeeds
PublishMetric ==
    /\ pc = "metrics loop"
    /\ \E itype \in p_todo :
          /\ metrics' = metrics \cup {<<itype, ri_surplus[itype]>>}
          /\ p_todo' = p_todo \ {itype}
    /\ UNCHANGED <<pc, argVars, invVars, misVars, greedyVars, execVars, result>>

\* lines 331-332: one put_metric_data that raises; nothing catches it (lines 133-135)
PublishFails ==
    /\ pc = "metrics loop"
    /\ p_todo # {}
    /\ pc' = "raised in publish_cw_metrics"
    /\ UNCHANGED <<argVars, invVars, misVars, greedyVars, execVars, pubVars>>

\* line 334
PublishReturn ==
    /\ pc = "metrics loop"
    /\ p_todo = {}
    /\ pc' = "return"
    /\ UNCHANGED <<argVars, invVars, misVars, greedyVars, execVars, pubVars>>

\* lines 121 and 138
Return ==
    /\ pc = "return"
    /\ result' = <<i_inventory, i_inventory_by_account, ri_inventory, supported_ri_zones,
                   processing_modifications, clean_mismatch,
                   <<eliminated_i_inventory, RiImbalance(ri_surplus)>>, plan,
                   modification_ids>>
    /\ pc' = "returned"
    /\ UNCHANGED <<argVars, invVars, misVars, greedyVars, execVars, p_todo, metrics>>

\* ------------------------------------------------------------- specifications
\* a run of riptimize
Init ==
    /\ pc = "riptimize"
    /\ BlankArgs /\ BlankInventories /\ BlankAccount /\ BlankMismatch /\ BlankGreedy /\ BlankExec
    /\ BlankPublish
    /\ plan = <<>>
    /\ perform = FALSE

Next ==
    \/ GetInstanceInventory \/ Aggregate \/ GetRiInventory \/ ZoneNotAvailable
    \/ Mismatch \/ Eliminate \/ Surplus
    \/ GreedySplit \/ GreedyRecipient \/ GreedyReturn
    \/ CallExecutePlan \/ SkipExecutePlan
    \/ ExecFetch \/ ExecAction \/ ExecCollect \/ ExecSubmit \/ ExecReturn
    \/ PublishStart \/ PublishMetric \/ PublishFails \/ PublishReturn \/ Return

Spec == Init /\ [][Next]_vars

\* the planning functions called on their own: aggregate_inventory on any per-account
\* inventories, and lines 110-126 on any two inventories and any supported zones
InitPlan ==
    /\ \/ /\ pc = "aggregate_inventory"
          /\ i_inventory_by_account \in AccountInventories(MaxAggregated)
          /\ i_inventory = EmptyDict
          /\ ri_inventory = EmptyDict
          /\ supported_ri_zones = {}
       \/ /\ pc = "compute_ri_mistmatch"
          /\ i_inventory_by_account = EmptyDict
          /\ i_inventory \in Inventories(MaxDemand)
          /\ ri_inventory \in Inventories(MaxReserved)
          /\ supported_ri_zones \in SUBSET Zones
    /\ env_groups = <<>>
    /\ zones = EmptyDict
    /\ processing_modifications = <<>>
    /\ BlankArgs /\ BlankMismatch /\ BlankGreedy /\ BlankExec /\ BlankPublish
    /\ plan = <<>>
    /\ perform = FALSE

NextPlan ==
    \/ Aggregate \/ Mismatch \/ Eliminate \/ Surplus
    \/ GreedySplit \/ GreedyRecipient \/ GreedyReturn

SpecPlan == InitPlan /\ [][NextPlan]_vars

\* execute_plan called on its own, with any plan and any active RI groups
InitExec ==
    /\ pc = "execute_plan"
    /\ plan \in Plans
    /\ env_groups \in {WithIds(groups) : groups \in GroupLists(PlanZones, MaxReserved)}
    /\ perform \in BOOLEAN
    /\ zones = EmptyDict
    /\ supported_ri_zones = {}
    /\ processing_modifications = <<>>
    /\ BlankArgs /\ BlankInventories /\ BlankMismatch /\ BlankGreedy /\ BlankExec
    /\ BlankPublish

NextExec == ExecFetch \/ ExecAction \/ ExecCollect \/ ExecSubmit \/ ExecReturn

SpecExec == InitExec /\ [][NextExec]_vars

\* lines 110-130 after get_ri_inventory returned: the plan is made from the inventory
\* of the RI groups that execute_plan then fetches, for any running instances
InitRedistribute ==
    /\ pc = "compute_ri_mistmatch"
    /\ i_inventory_by_account = EmptyDict
    /\ i_inventory \in Inventories(MaxDemand)
    /\ env_groups \in {WithIds(groups) : groups \in GroupLists(Zones, MaxReserved)}
    /\ ri_inventory = RiInventoryFrom(EmptyDict, env_groups)
    /\ zones = [z \in Zones |-> "available"]
    /\ supported_ri_zones = DOMAIN zones
    /\ processing_modifications = <<>>
    /\ BlankArgs /\ BlankMismatch /\ BlankGreedy /\ BlankExec /\ BlankPublish
    /\ plan = <<>>
    /\ perform = FALSE

NextRedistribute ==
    \/ Mismatch \/ Eliminate \/ Surplus
    \/ GreedySplit \/ GreedyRecipient \/ GreedyReturn
    \/ CallExecutePlan \/ SkipExecutePlan
    \/ ExecFetch \/ ExecAction \/ ExecCollect \/ ExecSubmit \/ ExecReturn

SpecRedistribute == InitRedistribute /\ [][NextRedistribute]_vars

\* ------------------------------------------------------------- properties
\* the instances a plan moves out of a key, and into a key
RECURSIVE MovedFrom(_, _)
MovedFrom(actions, k) ==
    IF actions = <<>> THEN 0
    ELSE (IF <<Head(actions)[1], Head(actions)[2]>> = k THEN Head(actions)[4] ELSE 0)
         + MovedFrom(Tail(actions), k)

RECURSIVE MovedInto(_, _)
MovedInto(actions, k) ==
    IF actions = <<>> THEN 0
    ELSE (IF <<Head(actions)[1], Head(actions)[3]>> = k THEN Head(actions)[4] ELSE 0)
         + MovedInto(Tail(actions), k)

RECURSIVE ConfiguredCount(_)
ConfiguredCount(configurations) ==
    IF configurations = <<>> THEN 0
    ELSE Head(configurations).instance_count + ConfiguredCount(Tail(configurations))

\* C1: the plan greedy_distribution returns moves out of a donor key at most its
\* surplus and into a recipient key at most its deficit, in every enumeration order.
C1_PlanWithinSurplusAndDeficit ==
    pc = "plan made" =>
        \A k \in DOMAIN clean_mismatch :
            /\ clean_mismatch[k] > 0 => MovedFrom(plan, k) <= clean_mismatch[k]
            /\ clean_mismatch[k] < 0 => MovedInto(plan, k) <= -clean_mismatch[k]

\* a donor emptied by two actions, each filling one recipient
C1_Witness ==
    /\ pc = "plan made"
    /\ Len(plan) = 2
    /\ \E k \in DOMAIN clean_mismatch :
          clean_mismatch[k] = 2 /\ MovedFrom(plan, k) = 2
    /\ \E k \in DOMAIN clean_mismatch :
          clean_mismatch[k] = -1 /\ MovedInto(plan, k) = 1

\* the groups execute_plan has moved capacity out of
Touched ==
    {i \in 1..Len(ri_groups) : ri_groups[i].instance_count < env_groups[i].instance_count}

\* C2: the target configurations built for a group, one per move and the remainder in
\* the group's own zone when its leftover is > 0, sum to the instance_count the group
\* had before execute_plan; every group capacity is moved out of is submitted so.
C2_CapacityConserved ==
    /\ \A b \in 1..Len(batches) :
          LET id == batches[b].reserved_instance_ids[1]
              configurations == batches[b].target_configurations
              leftover == ri_groups[id].instance_count
              moves == Len(modifications[id])
          IN /\ ConfiguredCount(configurations) = env_groups[id].instance_count
             /\ Len(configurations) = moves + (IF leftover > 0 THEN 1 ELSE 0)
             /\ \A i \in 1..moves :
                   /\ configurations[i].availability_zone = modifications[id][i][2]
                   /\ configurations[i].instance_count = modifications[id][i][3]
             /\ leftover > 0 =>
                   /\ configurations[moves + 1].availability_zone
                          = env_groups[id].availability_zone
                   /\ configurations[moves + 1].instance_count = leftover
    /\ pc = "publish" =>
          \A id \in Touched : \E b \in 1..Len(batches) :
              batches[b].reserved_instance_ids = <<id>>

\* a group that two actions of the plan, to different zones, drew from
C2_Witness ==
    /\ pc = "publish"
    /\ Len(plan) = 2
    /\ \E b \in 1..Len(batches) :
          /\ Len(modifications[batches[b].reserved_instance_ids[1]]) = 2
          /\ Len(batches[b].target_configurations) = 2
          /\ plan[1][3] # plan[2][3]

\* C3: a dry run never requests a modification and returns only the dry-run id; a
\* live run requests exactly one modification for each group capacity was moved out
\* of and none for any other, and as many ids are returned as there are such groups.
C3_OneRequestPerDonorGroup ==
    /\ ~perform =>
          /\ calls = <<>>
          /\ \A i \in 1..Len(modification_ids) : modification_ids[i].id = DryRunId
    /\ pc = "publish" =>
          /\ Len(modification_ids) = Cardinality(Touched)
          /\ perform =>
                /\ Len(calls) = Cardinality(Touched)
                /\ \A id \in Touched :
                      Cardinality({c \in 1..Len(calls) :
                                      calls[c].reserved_instance_ids = <<id>>}) = 1
                /\ \A c \in 1..Len(calls) : calls[c].reserved_instance_ids[1] \in Touched
                /\ \A i \in 1..Len(modification_ids) : modification_ids[i].id # DryRunId

\* a live run whose two actions drew from one group: one request
C3_Witness ==
    /\ pc = "publish"
    /\ perform
    /\ Len(plan) = 2
    /\ Cardinality(Touched) = 1
    /\ Len(modifications[CHOOSE id \in Touched : TRUE]) = 2
    /\ Len(calls) = 1

\* C4: with modifications in processing the plan is computed and returned, and the
\* plan is executed as a dry run whatever optimize is.
C4_InflightForcesDryRun ==
    processing_modifications # <<>> =>
        /\ calls = <<>>
        /\ \A i \in 1..Len(modification_ids) : modification_ids[i].id = DryRunId
        /\ pc = "returned" =>
              /\ result[8] = plan
              /\ result[9] = modification_ids
              /\ Len(plan) > 0 => Len(modification_ids) > 0

C4_Witness ==
    /\ pc = "returned"
    /\ processing_modifications # <<>>
    /\ optimize = "True"
    /\ Len(result[8]) > 0
    /\ Len(result[9]) > 0

\* compute_ri_mistmatch has returned
MismatchMade ==
    pc \in {"eliminate_unsupported_zones", "compute_ri_surplus", "greedy_distribution",
            "greedy_loop", "plan made"}

\* eliminate_unsupported_zones has returned
ZonesEliminated ==
    pc \in {"compute_ri_surplus", "greedy_distribution", "greedy_loop", "plan made"}

\* C5: the mismatch holds exactly the keys of either inventory whose reserved count
\* less demand count is not zero, each with that difference; a key only the demand
\* holds is negative, and no entry is 0.
C5_MismatchIsOuterJoin ==
    MismatchMade =>
        /\ DOMAIN mismatch =
              {k \in (DOMAIN ri_inventory) \cup (DOMAIN i_inventory) :
                  DictGet(ri_inventory, k, 0) - DictGet(i_inventory, k, 0) # 0}
        /\ \A k \in DOMAIN mismatch :
              /\ mismatch[k] = DictGet(ri_inventory, k, 0) - DictGet(i_inventory, k, 0)
              /\ mismatch[k] # 0
        /\ \A k \in (DOMAIN i_inventory) \ (DOMAIN ri_inventory) :
              k \in DOMAIN mismatch /\ mismatch[k] < 0

\* a key of the demand alone, and a key both hold in equal counts
C5_Witness ==
    /\ MismatchMade
    /\ \E k \in (DOMAIN i_inventory) \ (DOMAIN ri_inventory) : mismatch[k] = -1
    /\ \E k \in (DOMAIN i_inventory) \cap (DOMAIN ri_inventory) : k \notin DOMAIN mismatch

\* C6: the clean and the eliminated keys are disjoint and together are the keys of
\* the mismatch; a clean entry is the mismatch's, an eliminated one its negation.
C6_PartitionReconstructs ==
    ZonesEliminated =>
        /\ (DOMAIN clean_mismatch) \cap (DOMAIN eliminated_i_inventory) = {}
        /\ (DOMAIN clean_mismatch) \cup (DOMAIN eliminated_i_inventory) = DOMAIN mismatch
        /\ \A k \in DOMAIN clean_mismatch : clean_mismatch[k] = mismatch[k]
        /\ \A k \in DOMAIN eliminated_i_inventory : eliminated_i_inventory[k] = -mismatch[k]

C6_Witness ==
    /\ ZonesEliminated
    /\ DOMAIN clean_mismatch # {}
    /\ DOMAIN eliminated_i_inventory # {}

\* C7: every entry of the eliminated inventory is a count > 0.
C7_EliminatedIsDemand ==
    \A k \in DOMAIN eliminated_i_inventory : eliminated_i_inventory[k] > 0

\* C8: a put_metric_data that fails does not keep riptimize from returning.
C8_PublishFailureDoesNotAbort == pc # "raised in publish_cw_metrics"

\* C9: no key of the clean mismatch and no source or destination of the plan is in a
\* zone that is not supported; the mismatch's keys in such zones are eliminated.
C9_OnlySupportedZonesPlanned ==
    /\ \A k \in DOMAIN clean_mismatch : k[2] \in supported_ri_zones
    /\ \A i \in 1..Len(plan) :
          plan[i][2] \in supported_ri_zones /\ plan[i][3] \in supported_ri_zones
    /\ ZonesEliminated =>
          \A k \in DOMAIN mismatch :
              k[2] \notin supported_ri_zones =>
                  k \in DOMAIN eliminated_i_inventory /\ k \notin DOMAIN clean_mismatch

\* a plan made beside a demand of the same instance type in an unsupported zone
C9_Witness ==
    /\ pc = "plan made"
    /\ Len(plan) > 0
    /\ \E k \in DOMAIN eliminated_i_inventory : k[1] = plan[1][1]

\* aggregate_inventory has returned
Aggregated == pc = "get_ri_inventory"

\* C10: in whatever order the accounts are visited the aggregate is the same, each key
\* holding the sum of its counts over the accounts; no accounts give an empty inventory.
C10_AggregateOrderIndependent ==
    Aggregated =>
        /\ \A order \in Orders(DOMAIN i_inventory_by_account) :
              aggregate_inventory([i \in 1..Len(order) |-> i_inventory_by_account[order[i]]])
                  = i_inventory
        /\ DOMAIN i_inventory =
              UNION {DOMAIN i_inventory_by_account[a] : a \in DOMAIN i_inventory_by_account}
        /\ \A k \in DOMAIN i_inventory :
              i_inventory[k] =
                  SumOver([a \in DOMAIN i_inventory_by_account |->
                              DictGet(i_inventory_by_account[a], k, 0)],
                          DOMAIN i_inventory_by_account)
        /\ DOMAIN i_inventory_by_account = {} => i_inventory = EmptyDict

\* two accounts holding one key in different counts
C10_Witness ==
    /\ Aggregated
    /\ \E k \in DOMAIN i_inventory :
          /\ i_inventory[k] = 3
          /\ \A a \in AccountIds :
                a \in DOMAIN i_inventory_by_account /\ k \in DOMAIN i_inventory_by_account[a]

\* C11: when a zone listed for the RI holding account is in a state other than
\* 'available', the run has raised in get_ri_inventory and stays there: riptimize
\* returned no tuple, nothing was planned or executed, no modification was built or
\* requested and no metric was published.
C11_UnavailableZoneAborts ==
    (\E z \in DOMAIN zones : zones[z] # "available") =>
        /\ pc = "raised in get_ri_inventory"
        /\ result = <<>>
        /\ BlankMismatch /\ BlankGreedy /\ BlankExec
        /\ plan = <<>>
        /\ metrics = {} /\ p_todo = {}
        /\ ri_inventory = EmptyDict /\ supported_ri_zones = {}

\* a run that raised on a listing in which one zone is available and another is not
C11_Witness ==
    /\ pc = "raised in get_ri_inventory"
    /\ \E z \in DOMAIN zones : zones[z] = "available"
    /\ \E z \in DOMAIN zones : zones[z] = "impaired"
    /\ i_inventory # EmptyDict

\* C12: the client tokens of two modification requests of one execute_plan run, which
\* are the requests of two distinct donor groups, are never equal, whatever the clock
\* read.
C12_TokensFresh ==
    \A c, d \in 1..Len(calls) :
        calls[c].reserved_instance_ids # calls[d].reserved_instance_ids =>
            calls[c].client_token # calls[d].client_token

\* the instances the plan's actions of an instance type move
RECURSIVE MovedOfType(_, _)
MovedOfType(actions, itype) ==
    IF actions = <<>> THEN 0
    ELSE (IF Head(actions)[1] = itype THEN Head(actions)[4] ELSE 0)
         + MovedOfType(Tail(actions), itype)

\* the surpluses of an instance type's donors, and the deficits of its recipients
DonorTotal(d, itype) ==
    LET ks == {k \in DOMAIN d : k[1] = itype /\ d[k] > 0}
    IN SumOver([k \in ks |-> d[k]], ks)

RecipientTotal(d, itype) ==
    LET ks == {k \in DOMAIN d : k[1] = itype /\ d[k] < 0}
    IN SumOver([k \in ks |-> Abs(d[k])], ks)

\* C13: the plan greedy_distribution returns is maximal per instance type, in every
\* enumeration order: its actions of a type move min(the type's donor surpluses, the
\* type's recipient deficits) instances, so that either every recipient of the type
\* is satisfied or every donor of the type is exhausted, and a type with only donors
\* or only recipients has no action.
C13_PlanMaximalPerType ==
    pc = "plan made" =>
        \A itype \in Types :
            /\ MovedOfType(plan, itype) =
                   Min(DonorTotal(clean_mismatch, itype), RecipientTotal(clean_mismatch, itype))
            /\ \/ \A k \in DOMAIN clean_mismatch :
                      (k[1] = itype /\ clean_mismatch[k] < 0) =>
                          MovedInto(plan, k) = -clean_mismatch[k]
               \/ \A k \in DOMAIN clean_mismatch :
                      (k[1] = itype /\ clean_mismatch[k] > 0) =>
                          MovedFrom(plan, k) = clean_mismatch[k]
            /\ (DonorTotal(clean_mismatch, itype) = 0
                   \/ RecipientTotal(clean_mismatch, itype) = 0) =>
                   \A a \in 1..Len(plan) : plan[a][1] # itype

\* a plan for a type whose two recipients lack more than its donor holds, beside a
\* type that has a donor only
C13_Witness ==
    /\ pc = "plan made"
    /\ \E itype \in Types :
          /\ DonorTotal(clean_mismatch, itype) < RecipientTotal(clean_mismatch, itype)
          /\ Cardinality({k \in DOMAIN clean_mismatch :
                             k[1] = itype /\ clean_mismatch[k] < 0}) = 2
          /\ MovedOfType(plan, itype) > 0
    /\ \E itype \in Types :
          /\ DonorTotal(clean_mismatch, itype) > 0
          /\ RecipientTotal(clean_mismatch, itype) = 0

\* the triples a step appended to the list of a group, and the instances they move
Created(old, new, id) ==
    SubSeq(new[id], (IF id \in DOMAIN old THEN Len(old[id]) ELSE 0) + 1, Len(new[id]))

RECURSIVE MoveCounts(_)
MoveCounts(descriptors) ==
    IF descriptors = <<>> THEN 0 ELSE Head(descriptors)[3] + MoveCounts(Tail(descriptors))

\* C14: execute_plan drops no planned unit of a plan greedy_distribution made from the
\* inventory of the groups it consumes: the triples created for an action move, in
\* sum, exactly the action's count, every triple moves more than 0 instances, and no
\* group's instance_count goes below 0.
C14_NoPlannedUnitDropped ==
    [][(pc = "plan loop" /\ ai' = ai + 1) =>
          /\ SumOver([id \in DOMAIN modifications' |->
                         MoveCounts(Created(modifications, modifications', id))],
                     DOMAIN modifications') = plan[ai][4]
          /\ \A id \in DOMAIN modifications' :
                \A j \in 1..Len(modifications'[id]) : modifications'[id][j][3] > 0
          /\ \A i \in 1..Len(ri_groups') : ri_groups'[i].instance_count >= 0]_vars

\* the plan greedy_distribution made is executed, and two groups of one instance type
\* and zone were both drawn from: by one action split over them, or by two actions,
\* the second finding the first group emptied
C14_Witness ==
    /\ pc = "modifications loop"
    /\ recepients # EmptyDict
    /\ \E i, j \in Touched :
          /\ i # j
          /\ env_groups[i].instance_type = env_groups[j].instance_type
          /\ env_groups[i].availability_zone = env_groups[j].availability_zone

====
